---------------------------- MODULE Spec2Model ----------------------------
(***************************************************************************)
(* A model of binstruct3 (src/binstruct3/__init__.py): packers that turn   *)
(* Python values into bytes and back, schemas (classes decorated with      *)
(* @packable) and the operations of a Packable instance: construction,     *)
(* reload, dump, byte_size, zeroise and attribute assignment.              *)
(*                                                                         *)
(* Python values are tagged records.  Lists and struct instances are       *)
(* mutable and live in a heap of objects, the values that name them are    *)
(* references: two slots holding the same reference alias one object.      *)
(* Bytes are numbers 0..255, a str is the sequence of its code points and  *)
(* the text encoding is latin-1 (one byte per code point), the encoding    *)
(* the tests of the repository use.  Integers are packed in the native     *)
(* byte order of the tests' expectations, little-endian.                   *)
(***************************************************************************)
EXTENDS Integers, Sequences, FiniteSets, TLC

VARIABLES
    classes,  \* the classes @packable has decorated: name -> [align, fields]
    cls,      \* the class (schema name) of the instance under test
    heap,     \* the objects reachable from the instance; heap[1] is the instance
              \* (after a load: from what it returned, which is heap[1])
    stream,   \* the bytes written to the output stream, when the last operation is a dump
              \* (for a load: the bytes of the input stream not read yet)
    op,       \* the last operation run on the instance
    err,      \* how the last operation ended: [type, field]
    arg       \* the input of the last operation, when it is an assignment
              \* (for a load: the count and the bytes the stream had left)

vars == <<classes, cls, heap, stream, op, err, arg>>

---------------------------------------------------------------------------
(* Python values *)

None == [t |-> "none"]
IntV(n) == [t |-> "int", n |-> n]
StrV(s) == [t |-> "str", s |-> s]
Ref(a) == [t |-> "ref", a |-> a]

\* Python truthiness of the values a default can be (None, 0 and "" are falsy)
Truthy(v) ==
    CASE v.t = "none" -> FALSE
      [] v.t = "int" -> v.n # 0
      [] v.t = "str" -> v.s # <<>>
      [] OTHER -> TRUE

IsList(v, h) == v.t = "ref" /\ h[v.a].t = "list"
IsObj(v, h) == v.t = "ref" /\ h[v.a].t = "obj"

Min(a, b) == IF a < b THEN a ELSE b

Zeros(n) == [i \in 1..n |-> 0]

---------------------------------------------------------------------------
(* The struct module's formats, as RawPacker uses them *)

\* struct.calcsize of a one-item integer format
CalcSize(fmt) ==
    CASE fmt \in {"b", "B"} -> 1
      [] fmt \in {"h", "H"} -> 2
      [] fmt = "i" -> 4

\* the integers struct.pack accepts for a format
InRange(fmt, n) ==
    CASE fmt = "b" -> n >= -128 /\ n <= 127
      [] fmt = "B" -> n >= 0 /\ n <= 255
      [] fmt = "h" -> n >= -32768 /\ n <= 32767
      [] fmt = "H" -> n >= 0 /\ n <= 65535
      [] fmt = "i" -> n >= -2147483647 - 1 /\ n <= 2147483647

Pow256(k) == CASE k = 0 -> 1 [] k = 1 -> 256 [] k = 2 -> 65536 [] k = 3 -> 16777216

\* struct.pack of an in-range integer: two's complement, little-endian
IntBytes(n, sz) == [k \in 1..sz |-> (n \div Pow256(k - 1)) % 256]

RECURSIVE Unsigned(_)
Unsigned(b) ==
    IF b = <<>> THEN 0 ELSE b[1] + 256 * Unsigned(Tail(b))

\* struct.unpack of exactly CalcSize(fmt) bytes
BytesInt(fmt, b) ==
    LET sz == Len(b)
        top == b[sz]
        low == Unsigned(SubSeq(b, 1, sz - 1))
    IN  IF fmt \in {"b", "h", "i"} /\ top >= 128
           THEN low + (top - 256) * Pow256(sz - 1)
           ELSE low + top * Pow256(sz - 1)

\* struct.pack("<n>s", b): b cut to n bytes, or padded with zero bytes to n
PackS(n, b) == [i \in 1..n |-> IF i <= Len(b) THEN b[i] ELSE 0]

---------------------------------------------------------------------------
(* Packers *)

RawPacker(fmt, dflt) ==
    [kind |-> "raw", fmt |-> fmt, dflt |-> dflt, sz |-> CalcSize(fmt)]

\* RawPacker.__call__: a copy configured with a default
RawCall(p, dflt) == RawPacker(p.fmt, IF Truthy(dflt) THEN dflt ELSE p.dflt)

int8 == RawPacker("b", None)
uint8 == RawPacker("B", None)
int16 == RawPacker("h", None)
uint16 == RawPacker("H", None)
int32 == RawPacker("i", None)

CharsPacker(dflt, size, tz) ==
    [kind |-> "chars", dflt |-> dflt, sz |-> size, tz |-> tz]

\* CharsPacker.__call__(default_val)
CharsCall(p, dflt) ==
    CharsPacker(IF Truthy(dflt) THEN dflt ELSE p.dflt, p.sz, p.tz)

char == CharsPacker(None, 1, TRUE)

\* char[count]
CharsItem(p, count) == CharsPacker(None, count, p.tz)

ArrayPacker(elem, count) == [kind |-> "array", elem |-> elem, cnt |-> count]

array(count, packer) == ArrayPacker(packer, count)

StructPacker(c) == [kind |-> "struct", cls |-> c]

\* the packer an attribute of a decorated class declares: base, or base(arg)
Configure(base, a) ==
    CASE base.kind = "raw" -> IF a = None THEN base ELSE RawCall(base, a)
      [] base.kind = "chars" -> IF a = None THEN base ELSE CharsCall(base, a)
      [] OTHER -> base

\* CharsPacker._encode: the str's bytes, zero-padded up to the packer's size
CharsEncode(p, s) == IF Len(s) < p.sz THEN PackS(p.sz, s) ELSE s

RECURSIVE FindZero(_, _)
FindZero(s, i) ==
    IF i > Len(s) THEN 0 ELSE IF s[i] = 0 THEN i ELSE FindZero(s, i + 1)

RECURSIVE RStripZero(_)
RStripZero(s) ==
    IF s # <<>> /\ s[Len(s)] = 0 THEN RStripZero(SubSeq(s, 1, Len(s) - 1)) ELSE s

\* CharsPacker._decode
CharsDecode(p, b) ==
    IF p.tz
       THEN LET idx == FindZero(b, 1)
            IN  IF idx = 0 THEN b ELSE SubSeq(b, 1, idx - 1)
       ELSE RStripZero(b)

---------------------------------------------------------------------------
(* The class declarations: the classes the tests of the repository         *)
(* decorate with @packable, and a few more that configure the same packers *)
(* differently.  An attribute is declared as base, or as base(arg) when    *)
(* arg is not None.                                                        *)

Fld(name, base, a) == [name |-> name, base |-> base, arg |-> a]

Decl(c) ==
    CASE c = "Point" ->   \* tests.py: Point
           [align |-> 1,
            fields |-> << Fld("x", int32, IntV(5)), Fld("y", int32, IntV(6)) >>]
      [] c = "Ints" ->    \* tests.py: AlignTests.test_read_int
           [align |-> 4,
            fields |-> << Fld("f1", int8, None), Fld("f2", int16, None),
                          Fld("f3", int32, None) >>]
      [] c = "Cfg" ->     \* defaults that are falsy in Python: int8(0), char("")
           [align |-> 2,
            fields |-> << Fld("z", int8, IntV(0)), Fld("e", char, StrV(<<>>)) >>]
      [] c = "Regs" ->    \* an unsigned and a 16-bit field
           [align |-> 2,
            fields |-> << Fld("u", uint8, IntV(7)), Fld("h", int16, None) >>]
      [] c = "Name" ->    \* a text field, cut at the first zero byte
           [align |-> 1,
            fields |-> << Fld("s", CharsItem(char, 3), None) >>]
      [] c = "NameR" ->   \* a text field with terminate_at_first_zero off
           [align |-> 2,
            fields |-> << Fld("s", CharsPacker(None, 3, FALSE), StrV(<<97, 98>>)) >>]
      [] c = "Arr" ->     \* tests.py: WriteTests.test_array_error_exception
           [align |-> 1,
            fields |-> << Fld("g", array(4, int8), None) >>]
      [] c = "ArrD" ->    \* tests.py: InitializationTests.test_array_defaults
           [align |-> 1,
            fields |-> << Fld("a", array(4, RawCall(int8, IntV(5))), None) >>]
      [] c = "Outer" ->   \* tests.py: StreamReadTests.test_zeroise_function
           [align |-> 1,
            fields |-> << Fld("a", int8, IntV(32)),
                          Fld("p", StructPacker("Point"), None) >>]
      [] c = "A" ->       \* tests.py: AlignTests.test_init3
           [align |-> 8,
            fields |-> << Fld("f1", int8, None),
                          Fld("f2", CharsItem(char, 6), None) >>]
      [] c = "B" ->       \* tests.py: AlignTests.test_init3
           [align |-> 4,
            fields |-> << Fld("f1", array(3, StructPacker("A")), None),
                          Fld("f2", int8, None) >>]
      [] c = "ArrT" ->    \* an array with a field after it
           [align |-> 1,
            fields |-> << Fld("g", array(2, RawCall(int8, IntV(5))), None),
                          Fld("t", int8, IntV(9)) >>]
      [] c = "Grid" ->    \* an array of arrays
           [align |-> 1,
            fields |-> << Fld("m", array(2, array(2, RawCall(int8, IntV(5)))), None) >>]

\* the classes an instance under test is made of
Classes == {"Point", "Ints", "Cfg", "Regs", "Name", "NameR", "Arr", "ArrD",
            "ArrT", "Outer", "B", "Grid"}

AllClasses == Classes \cup {"A"}

\* packable(align)(cls): every attribute that get_packer resolves becomes a
\* PackerField bound to its packer; _align is kept for the instances
Packable(d) ==
    [align |-> d.align,
     fields |-> [i \in 1..Len(d.fields) |->
                    [name |-> d.fields[i].name,
                     packer |-> Configure(d.fields[i].base, d.fields[i].arg)]]]

\* Packable.fields: the class's Field attributes, in declaration order
Fields(c) == classes[c].fields

NFields(c) == Len(classes[c].fields)

\* getattr(self, "_align", 1)
Align(c) == classes[c].align

\* PackerField._packer of the i-th field
FieldPacker(c, i) == classes[c].fields[i].packer

\* PackerField.storage: "<class>.<attribute>"
Storage(c, i) == <<c, classes[c].fields[i].name>>

\* Packable.reload/dump/byte_size: the bytes to skip after offs bytes
Skip(align, offs) == (align - (offs % align)) % align

---------------------------------------------------------------------------
(* What the packers do with a value.  An operation ends "ok" or with the   *)
(* name of the exception it raises.                                        *)

\* the exceptions an "except Binstruct3Error" clause catches
B3Errors == {"Binstruct3Error", "FieldError"}

\* values Python can iterate, take len() of and index: a list, a str
Iterable(v, h) == IsList(v, h) \/ v.t = "str"

Items(v, h) ==
    IF v.t = "str" THEN [i \in 1..Len(v.s) |-> StrV(<<v.s[i]>>)]
                   ELSE h[v.a].items

\* the one value of a singleton set: The({e(r) : r \in {x}}) is e(x), with
\* x computed once
The(S) == CHOOSE v \in S : TRUE

\* a validate_value that lets any integer pass, whatever the format's range
RawValidateAnyInt(p, v) ==
    IF v = None \/ v.t = "int" THEN "ok" ELSE "Binstruct3Error"

\* RawPacker.validate_value: None passes, anything else must struct.pack
RawValidate(p, v) ==
    IF v = None \/ (v.t = "int" /\ InRange(p.fmt, v.n))
       THEN "ok" ELSE "Binstruct3Error"

RECURSIVE Validate(_, _, _), ValidateItems(_, _, _, _)

\* Packer.validate_value
Validate(p, v, h) ==
    CASE p.kind = "raw" -> RawValidate(p, v)
      [] p.kind = "chars" ->
           IF v = None \/ v.t = "str" THEN "ok" ELSE "AttributeError"
      [] p.kind = "array" ->
           IF ~Iterable(v, h) THEN "TypeError"
           ELSE IF Len(Items(v, h)) # p.cnt THEN "Binstruct3Error"
           ELSE ValidateItems(p.elem, Items(v, h), h, 1)
      [] p.kind = "struct" ->
           IF IsObj(v, h) /\ h[v.a].cls = p.cls THEN "ok" ELSE "Binstruct3Error"

ValidateItems(p, items, h, i) ==
    IF i > Len(items) THEN "ok"
    ELSE The({IF e # "ok" THEN e ELSE ValidateItems(p, items, h, i + 1)
              : e \in {Validate(p, items[i], h)}})

RECURSIVE ByteSize(_, _, _), SumSizes(_, _, _, _, _), SizeFields(_, _, _, _)

\* Packer.byte_size
ByteSize(p, v, h) ==
    CASE p.kind \in {"raw", "chars"} -> [err |-> "ok", n |-> p.sz]
      [] p.kind = "array" ->
           IF ~Iterable(v, h) THEN [err |-> "TypeError", n |-> 0]
           ELSE SumSizes(p.elem, Items(v, h), h, 1, 0)
      [] p.kind = "struct" ->
           IF IsObj(v, h) THEN SizeFields(v.a, h, 1, 0)
           ELSE [err |-> "AttributeError", n |-> 0]

SumSizes(p, items, h, i, n) ==
    IF i > Len(items) THEN [err |-> "ok", n |-> n]
    ELSE The({IF r.err # "ok" THEN r ELSE SumSizes(p, items, h, i + 1, n + r.n)
              : r \in {ByteSize(p, items[i], h)}})

\* a byte_size that leaves the alignment padding out
SizeStepUnpadded(align, ret, n) == ret + n

\* Packable.byte_size, one round of its loop: ret after a field of n bytes
\* and the skip to the alignment
SizeStep(align, ret, n) == ret + n + Skip(align, ret + n)

\* Packable.byte_size, from the i-th field on, ret bytes counted so far
SizeFields(a, h, i, ret) ==
    IF i > NFields(h[a].cls) THEN [err |-> "ok", n |-> ret]
    ELSE The({IF r.err # "ok" THEN r
              ELSE SizeFields(a, h, i + 1, SizeStep(Align(h[a].cls), ret, r.n))
              : r \in {ByteSize(FieldPacker(h[a].cls, i), h[a].items[i], h)}})

SizeObj(a, h) == SizeFields(a, h, 1, 0)

\* RawPacker.pack
RawPack(p, v) ==
    IF v.t = "int" /\ InRange(p.fmt, v.n)
       THEN [err |-> "ok", out |-> IntBytes(v.n, p.sz)]
       ELSE [err |-> "Binstruct3Error", out |-> <<>>]

\* CharsPacker.pack
CharsPack(p, v) ==
    IF v.t = "str"
       THEN [err |-> "ok", out |-> PackS(p.sz, CharsEncode(p, v.s))]
       ELSE [err |-> "Binstruct3Error", out |-> <<>>]

RECURSIVE Pack(_, _, _), PackItems(_, _, _, _, _), DumpFields(_, _, _, _, _)

\* Packer.pack: how it ends and the bytes it wrote
Pack(p, v, h) ==
    CASE p.kind = "raw" -> RawPack(p, v)
      [] p.kind = "chars" -> CharsPack(p, v)
      [] p.kind = "array" ->
           IF ~Iterable(v, h) THEN [err |-> "TypeError", out |-> <<>>]
           ELSE PackItems(p, Items(v, h), h, 1, <<>>)
      [] p.kind = "struct" ->
           IF IsObj(v, h)
              THEN The({[err |-> d.err, out |-> d.out]
                        : d \in {DumpFields(v.a, h, 1, <<>>, <<>>)}})
              ELSE [err |-> "AttributeError", out |-> <<>>]

\* ArrayPacker.pack, from the i-th of p.cnt rounds on.  When the iterator
\* is exhausted the error is built but not raised, and the loop goes on.
PackItems(p, items, h, i, out) ==
    IF i > p.cnt THEN [err |-> "ok", out |-> out]
    ELSE IF i > Len(items) THEN PackItems(p, items, h, i + 1, out)
    ELSE The({IF r.err = "ok" THEN PackItems(p, items, h, i + 1, out \o r.out)
              ELSE [err |-> IF r.err \in B3Errors THEN "Binstruct3Error" ELSE r.err,
                    out |-> out \o r.out]
              : r \in {Pack(p.elem, items[i], h)}})

\* Packable.dump, from the i-th field on, out written since start_pos; at
\* keeps stream.tell() - start_pos at each field.write
DumpFields(a, h, i, out, at) ==
    IF i > NFields(h[a].cls)
       THEN [err |-> "ok", field |-> <<>>, out |-> out, at |-> at]
    ELSE The({IF r.err = "ok"
                 THEN DumpFields(a, h, i + 1,
                         out \o r.out
                             \o Zeros(Skip(Align(h[a].cls), Len(out) + Len(r.out))),
                         Append(at, Len(out)))
              ELSE IF r.err \in B3Errors
                 THEN [err |-> "FieldError", field |-> Storage(h[a].cls, i),
                       out |-> out \o r.out, at |-> Append(at, Len(out))]
              ELSE [err |-> r.err, field |-> <<>>,
                    out |-> out \o r.out, at |-> Append(at, Len(out))]
              : r \in {Pack(FieldPacker(h[a].cls, i), h[a].items[i], h)}})

DumpObj(a, h) == DumpFields(a, h, 1, <<>>, <<>>)

---------------------------------------------------------------------------
(* Filling an instance: from defaults, and from a stream of bytes.  A new  *)
(* list or instance is put at the end of the heap.                         *)

Alloc(h, o) == Append(h, o)

\* the heap with object a holding the given items
SetItems(h, a, items) ==
    [k \in 1..Len(h) |->
        IF k # a THEN h[k]
        ELSE IF h[k].t = "obj"
           THEN [t |-> "obj", cls |-> h[k].cls, items |-> items]
        ELSE [t |-> "list", items |-> items]]

\* setattr(instance, storage, v) for the i-th field of instance a
SetSlot(h, a, i, v) ==
    SetItems(h, a, [j \in 1..Len(h[a].items) |-> IF j = i THEN v ELSE h[a].items[j]])

RECURSIVE DefaultValue(_, _), FillDefaults(_, _, _)

\* MyPackable.__init__ with no arguments: a new instance, put at address
\* Len(h) + 1, its fields filled with their packers' defaults
NewInstance(c, h) ==
    The({[err |-> r.err, field |-> r.field, a |-> Len(h) + 1, h |-> r.h]
         : r \in {FillDefaults(Len(h) + 1,
                               Alloc(h, [t |-> "obj", cls |-> c,
                                         items |-> [i \in 1..NFields(c) |-> None]]),
                               1)}})

\* Packer.default_value: the value and the heap that holds it
DefaultValue(p, h) ==
    CASE p.kind \in {"raw", "chars"} -> [val |-> p.dflt, h |-> h]
      [] p.kind = "array" ->    \* [self._packer.default_value()] * self._cnt
           The({[val |-> Ref(Len(d.h) + 1),
                 h |-> Alloc(d.h, [t |-> "list",
                                   items |-> [i \in 1..p.cnt |-> d.val]])]
                : d \in {DefaultValue(p.elem, h)}})
      [] p.kind = "struct" ->
           The({[val |-> Ref(n.a), h |-> n.h] : n \in {NewInstance(p.cls, h)}})

\* a __set__ that stores the value first and validates it afterwards
SetThenValidate(a, i, v, h) ==
    The({IF e = "ok" THEN [err |-> "ok", field |-> <<>>, h |-> SetSlot(h, a, i, v)]
         ELSE IF e \in B3Errors
            THEN [err |-> "FieldError", field |-> Storage(h[a].cls, i),
                  h |-> SetSlot(h, a, i, v)]
         ELSE [err |-> e, field |-> <<>>, h |-> SetSlot(h, a, i, v)]
         : e \in {Validate(FieldPacker(h[a].cls, i), v, h)}})

\* PackerField.__set__: validate the value, then store it in the slot
SetField(a, i, v, h) ==
    The({IF e = "ok" THEN [err |-> "ok", field |-> <<>>, h |-> SetSlot(h, a, i, v)]
         ELSE IF e \in B3Errors
            THEN [err |-> "FieldError", field |-> Storage(h[a].cls, i), h |-> h]
         ELSE [err |-> e, field |-> <<>>, h |-> h]
         : e \in {Validate(FieldPacker(h[a].cls, i), v, h)}})

\* PackerField.fill without a stream, for the i-th field and those after it
FillDefaults(a, h, i) ==
    IF i > NFields(h[a].cls) THEN [err |-> "ok", field |-> <<>>, h |-> h]
    ELSE The({The({IF r.err = "ok" THEN FillDefaults(a, r.h, i + 1) ELSE r
                   : r \in {SetField(a, i, d.val, d.h)}})
              : d \in {DefaultValue(FieldPacker(h[a].cls, i), h)}})

RECURSIVE Unpack(_, _, _, _), UnpackItems(_, _, _, _, _, _),
          ReloadFields(_, _, _, _, _, _, _)

\* RawPacker.unpack: stream.read(sz) at pos, then struct.unpack
RawUnpack(p, data, pos, h) ==
    IF pos + p.sz > Len(data)
       THEN [err |-> "Binstruct3Error", val |-> None, pos |-> Len(data), h |-> h]
       ELSE [err |-> "ok", pos |-> pos + p.sz, h |-> h,
             val |-> IntV(BytesInt(p.fmt, SubSeq(data, pos + 1, pos + p.sz)))]

\* CharsPacker.unpack
CharsUnpack(p, data, pos, h) ==
    IF pos + p.sz > Len(data)
       THEN [err |-> "Binstruct3Error", val |-> None, pos |-> Len(data), h |-> h]
       ELSE [err |-> "ok", pos |-> pos + p.sz, h |-> h,
             val |-> StrV(CharsDecode(p, SubSeq(data, pos + 1, pos + p.sz)))]

\* Packer.unpack at offset pos of data: the value, the new offset and heap
Unpack(p, data, pos, h) ==
    CASE p.kind = "raw" -> RawUnpack(p, data, pos, h)
      [] p.kind = "chars" -> CharsUnpack(p, data, pos, h)
      [] p.kind = "array" -> UnpackItems(p, data, pos, h, 1, <<>>)
      [] p.kind = "struct" ->   \* Packable.load: cls(), then reload
           The({IF n.err # "ok"
                   THEN [err |-> n.err, val |-> None, pos |-> pos, h |-> n.h]
                   ELSE The({[err |-> r.err, val |-> Ref(n.a), pos |-> r.pos, h |-> r.h]
                             : r \in {ReloadFields(n.a, data, pos, pos, n.h, 1, <<>>)}})
                : n \in {NewInstance(p.cls, h)}})

\* ArrayPacker.unpack, from the i-th element on, ret read so far
UnpackItems(p, data, pos, h, i, ret) ==
    IF i > p.cnt
       THEN [err |-> "ok", val |-> Ref(Len(h) + 1), pos |-> pos,
             h |-> Alloc(h, [t |-> "list", items |-> ret])]
    ELSE The({IF r.err = "ok"
                 THEN UnpackItems(p, data, r.pos, r.h, i + 1, Append(ret, r.val))
                 ELSE [err |-> IF r.err \in B3Errors THEN "Binstruct3Error" ELSE r.err,
                       val |-> None, pos |-> r.pos, h |-> r.h]
              : r \in {Unpack(p.elem, data, pos, h)}})

\* Packable.reload from a stream, for the i-th field and those after it:
\* PackerField.fill (unpack, then __set__), then the skip to the alignment;
\* at keeps stream.tell() - start_pos at each field.fill
ReloadFields(a, data, start, pos, h, i, at) ==
    IF i > NFields(h[a].cls)
       THEN [err |-> "ok", field |-> <<>>, pos |-> pos, h |-> h, at |-> at]
    ELSE The({IF u.err \in B3Errors
                 THEN [err |-> "FieldError", field |-> Storage(h[a].cls, i),
                       pos |-> u.pos, h |-> u.h, at |-> Append(at, pos - start)]
              ELSE IF u.err # "ok"
                 THEN [err |-> u.err, field |-> <<>>, pos |-> u.pos, h |-> u.h,
                       at |-> Append(at, pos - start)]
              ELSE The({IF r.err # "ok"
                           THEN [err |-> r.err, field |-> r.field, pos |-> u.pos,
                                 h |-> r.h, at |-> Append(at, pos - start)]
                        ELSE ReloadFields(a, data, start,
                                Min(u.pos + Skip(Align(h[a].cls), u.pos - start),
                                    Len(data)),
                                r.h, i + 1, Append(at, pos - start))
                        : r \in {SetField(a, i, u.val, u.h)}})
              : u \in {Unpack(FieldPacker(h[a].cls, i), data, pos, h)}})

\* Packable.reload(stream) with a stream or a buffer
ReloadObj(a, data, h) == ReloadFields(a, data, 0, 0, h, 1, <<>>)

---------------------------------------------------------------------------
(* Only the objects the instance reaches exist for the program; their      *)
(* addresses are renumbered in the order a walk from the instance meets    *)
(* them, so that a state does not depend on what was allocated and dropped *)

RECURSIVE RefsFrom(_, _)
RefsFrom(items, i) ==
    IF i > Len(items) THEN <<>>
    ELSE IF items[i].t = "ref" THEN <<items[i].a>> \o RefsFrom(items, i + 1)
    ELSE RefsFrom(items, i + 1)

\* the objects an object's slots name, in slot order
Kids(o) == RefsFrom(o.items, 1)

RECURSIVE Walk(_, _, _)
Walk(h, todo, seen) ==
    IF todo = <<>> THEN seen
    ELSE IF \E i \in 1..Len(seen) : seen[i] = Head(todo)
       THEN Walk(h, Tail(todo), seen)
    ELSE Walk(h, Kids(h[Head(todo)]) \o Tail(todo), Append(seen, Head(todo)))

\* the objects of h in the given order, their references renumbered
Renumber(h, order) ==
    LET new(a) == CHOOSE i \in 1..Len(order) : order[i] = a
        ren(v) == IF v.t = "ref" THEN Ref(new(v.a)) ELSE v
        moved(o) == [k \in 1..Len(o.items) |-> ren(o.items[k])]
    IN  [i \in 1..Len(order) |->
            IF h[order[i]].t = "obj"
               THEN [t |-> "obj", cls |-> h[order[i]].cls, items |-> moved(h[order[i]])]
               ELSE [t |-> "list", items |-> moved(h[order[i]])]]

Normalize(h) == Renumber(h, Walk(h, <<1>>, <<>>))

---------------------------------------------------------------------------
(* Inputs *)

\* the longest buffer of the buffers tried byte by byte
MaxBufLen == 3

\* the longest list a slice assignment stores
MaxSlice == 1

\* the bytes those buffers are made of: zero and "a"
ByteVals == {0, 97}

AllBuffers == UNION {[1..n -> ByteVals] : n \in 0..MaxBufLen}

\* the buffers the tests load Point and the aligned integers from, the
\* first of them cut to 6 bytes, and the bytes of the array [1, 2, 3, 4]
TestBuffers(c) ==
    CASE c = "Point" -> {<<1, 0, 0, 0, 2, 0, 0, 0>>, <<1, 0, 0, 0, 2, 0>>}
      [] c = "Ints" -> {<<1, 72, 72, 72, 2, 1, 72, 72, 4, 3, 2, 1>>}
      [] c = "Arr" -> {<<1, 2, 3, 4>>}
      [] OTHER -> {}

Buffers(c) == AllBuffers \cup TestBuffers(c)

Rep(v, n) == [i \in 1..n |-> v]

\* what a caller may assign to a field: a value, a list display, a list of
\* n default elements, a new instance of a class
Val(v) == [k |-> "val", v |-> v]

Cands(p) ==
    CASE p.kind = "raw" ->
           {Val(None), Val(IntV(-200)), Val(IntV(97)), Val(IntV(200)),
            Val(IntV(40000)), Val(StrV(<<49, 50, 51>>))}
      [] p.kind = "chars" ->
           {Val(StrV(<<97>>)), Val(StrV(Rep(97, p.sz + 1))), Val(IntV(5))}
      [] p.kind = "array" ->
           {Val(IntV(5)), Val(None),
            [k |-> "defaults", n |-> p.cnt], [k |-> "defaults", n |-> p.cnt - 1]}
           \cup (IF p.elem.kind = "raw"
                    THEN {[k |-> "list", items |-> Rep(IntV(97), p.cnt)],
                          [k |-> "list", items |-> Rep(IntV(97), p.cnt - 1)],
                          [k |-> "list", items |-> Append(Rep(IntV(97), p.cnt - 1),
                                                          StrV(<<>>))]}
                    ELSE {})
      [] p.kind = "struct" ->
           {Val(IntV(5)), Val(None),
            [k |-> "new", cls |-> p.cls], [k |-> "new", cls |-> "Name"]}

RECURSIVE DefaultItems(_, _, _, _)
\* [p.default_value() for _ in range(n)]
DefaultItems(p, n, h, ret) ==
    IF n = 0 THEN [items |-> ret, h |-> h]
    ELSE The({DefaultItems(p, n - 1, d.h, Append(ret, d.val))
              : d \in {DefaultValue(p, h)}})

\* the value of a candidate for a field of packer p, and the heap holding it
Build(cand, p, h) ==
    CASE cand.k = "val" -> [val |-> cand.v, h |-> h]
      [] cand.k = "list" ->
           [val |-> Ref(Len(h) + 1),
            h |-> Alloc(h, [t |-> "list", items |-> cand.items])]
      [] cand.k = "defaults" ->
           The({[val |-> Ref(Len(d.h) + 1),
                 h |-> Alloc(d.h, [t |-> "list", items |-> d.items])]
                : d \in {DefaultItems(p.elem, cand.n, h, <<>>)}})
      [] cand.k = "new" ->
           The({[val |-> Ref(n.a), h |-> n.h] : n \in {NewInstance(cand.cls, h)}})

\* the immutable values a slice assignment stores into a list
ItemCands == {IntV(97)}

Ok == [type |-> "ok", field |-> <<>>]

Outcome(r) == [type |-> r.err, field |-> r.field]

---------------------------------------------------------------------------
(* The operations on the instance under test, heap[1] *)

\* cls(): a new instance of one of the classes, the classes decorated
Construct(c) ==
    /\ classes = [k \in AllClasses |-> Packable(Decl(k))]
    /\ cls = c
    /\ \E n \in {NewInstance(c, <<>>)} :
          /\ heap = Normalize(n.h)
          /\ err = Outcome(n)
    /\ stream = <<>>
    /\ op = "init"
    /\ arg = <<>>

\* instance.reload(): every field back to its default
DefaultFill ==
    /\ \E r \in {FillDefaults(1, heap, 1)} :
          /\ heap' = Normalize(r.h)
          /\ err' = Outcome(r)
    /\ op' = "default"
    /\ arg' = <<>>
    /\ stream' = <<>>
    /\ UNCHANGED <<classes, cls>>

\* instance.reload(buf)
Reload(buf) ==
    /\ \E r \in {ReloadObj(1, buf, heap)} :
          /\ heap' = Normalize(r.h)
          /\ err' = Outcome(r)
    /\ op' = "reload"
    /\ arg' = <<>>
    /\ stream' = <<>>
    /\ UNCHANGED <<classes, cls>>

\* a zeroise that fills the fields with their defaults
ZeroiseByDefaults ==
    /\ \E r \in {FillDefaults(1, heap, 1)} :
          /\ heap' = Normalize(r.h)
          /\ err' = Outcome(r)
    /\ op' = "zeroise"
    /\ arg' = <<>>
    /\ stream' = <<>>
    /\ UNCHANGED <<classes, cls>>

\* instance.zeroise(): reload from byte_size() zero bytes
Zeroise ==
    /\ \E n \in {SizeObj(1, heap)} :
          IF n.err # "ok"
             THEN heap' = heap /\ err' = [type |-> n.err, field |-> <<>>]
             ELSE \E r \in {ReloadObj(1, Zeros(n.n), heap)} :
                     heap' = Normalize(r.h) /\ err' = Outcome(r)
    /\ op' = "zeroise"
    /\ arg' = <<>>
    /\ stream' = <<>>
    /\ UNCHANGED <<classes, cls>>

\* obj.<field i> = value, on the instance or a struct instance it holds
Assign(a, i, cand) ==
    /\ \E b \in {Build(cand, FieldPacker(heap[a].cls, i), heap)} :
          \E r \in {SetField(a, i, b.val, b.h)} :
             /\ heap' = Normalize(r.h)
             /\ err' = Outcome(r)
    /\ op' = "assign"
    /\ arg' = [a |-> a, i |-> i, p |-> FieldPacker(heap[a].cls, i), c |-> cand]
    /\ stream' = <<>>
    /\ UNCHANGED <<classes, cls>>

\* lst[lo:hi] = items on a list of numbers or text the instance holds
\* (lst[i] = v is the slice lst[i:i+1] = [v]); no validation runs.  The
\* slices tried replace or drop items, they do not lengthen the list.
SliceAssign(l, lo, hi, items) ==
    LET old == heap[l].items
        new == SubSeq(old, 1, lo) \o items \o SubSeq(old, hi + 1, Len(old))
    IN  /\ Kids(heap[l]) = <<>>
        /\ Len(new) <= Len(old)
        /\ heap' = SetItems(heap, l, new)
        /\ op' = "slice"
        /\ err' = Ok
        /\ arg' = <<>>
        /\ stream' = <<>>
        /\ UNCHANGED <<classes, cls>>

\* instance.dump(stream) into an empty stream (to_bytes)
Dump ==
    /\ \E d \in {DumpObj(1, heap)} :
          /\ stream' = d.out
          /\ err' = Outcome(d)
    /\ op' = "dump"
    /\ arg' = <<>>
    /\ UNCHANGED <<classes, cls, heap>>

Lists == {a \in DOMAIN heap : heap[a].t = "list"}

\* the struct instances whose fields the caller assigns: the instance, the
\* structs its fields hold, and the first struct of a list of structs
Owned(a) ==
    \/ a = 1
    \/ \E o \in DOMAIN heap :
          IF heap[o].t = "list"
             THEN heap[o].items # <<>> /\ heap[o].items[1] = Ref(a)
             ELSE \E i \in DOMAIN heap[o].items : heap[o].items[i] = Ref(a)

Objs == {a \in DOMAIN heap : heap[a].t = "obj" /\ Owned(a)}

AssignAny ==
    \E a \in Objs : \E i \in 1..NFields(heap[a].cls) :
        \E cand \in Cands(FieldPacker(heap[a].cls, i)) : Assign(a, i, cand)

SliceAny ==
    \E l \in Lists : \E lo \in 0..Len(heap[l].items) : \E hi \in lo..Len(heap[l].items) :
        \E items \in UNION {[1..n -> ItemCands] : n \in 0..MaxSlice} :
            SliceAssign(l, lo, hi, items)

ReloadAny == \E buf \in Buffers(cls) : Reload(buf)

Init == \E c \in Classes : Construct(c)

Next ==
    \/ DefaultFill
    \/ ReloadAny
    \/ Zeroise
    \/ AssignAny
    \/ SliceAny
    \/ Dump

Spec == Init /\ [][Next]_vars

---------------------------------------------------------------------------
(* cls.load(stream, count) on a stream that keeps its position between     *)
(* calls                                                                   *)

\* the largest count asked for
MaxCount == 3

\* the counts a caller passes: integers, None and the text "2"
Counts == {IntV(n) : n \in -1..MaxCount} \cup {None, StrV(<<50>>)}

\* byte_size() of a new instance of class c
NewSize(c) == The({SizeObj(n.a, n.h).n : n \in {NewInstance(c, <<>>)}})

\* the streams loaded from: two buffers one after the other, and as many
\* zero bytes as 1..MaxCount instances take, whole or with the last byte
\* missing
LoadBuffers(c) ==
    {x \o y : x \in Buffers(c), y \in Buffers(c)}
       \cup {Zeros(k * NewSize(c) - m) : k \in 1..MaxCount, m \in 0..1}

\* the objects of h that a names, a first
NormalizeAt(h, a) == Renumber(h, Walk(h, <<a>>, <<>>))

RECURSIVE LoadLoop(_, _, _, _, _, _, _)
\* for i in range(count): obj = cls(); obj.reload(stream); ret.append(obj)
LoadLoop(c, data, pos, h, i, count, ret) ==
    IF i >= count
       THEN [err |-> "ok", field |-> <<>>, pos |-> pos, h |-> h, ret |-> ret]
    ELSE The({IF n.err # "ok"
                 THEN [err |-> n.err, field |-> n.field, pos |-> pos, h |-> n.h,
                       ret |-> ret]
              ELSE The({IF r.err # "ok"
                           THEN [err |-> r.err, field |-> r.field, pos |-> r.pos,
                                 h |-> r.h, ret |-> ret]
                        ELSE LoadLoop(c, data, r.pos, r.h, i + 1, count,
                                      Append(ret, Ref(n.a)))
                        : r \in {ReloadFields(n.a, data, pos, pos, n.h, 1, <<>>)}})
              : n \in {NewInstance(c, h)}})

\* a load that returns the list whatever the count
LoadResultList(count, ret, h) ==
    [val |-> Ref(Len(h) + 1), h |-> Alloc(h, [t |-> "list", items |-> ret])]

\* if count == 1: return ret[0]; return ret
LoadResult(count, ret, h) ==
    IF count = 1 THEN [val |-> ret[1], h |-> h]
    ELSE [val |-> Ref(Len(h) + 1), h |-> Alloc(h, [t |-> "list", items |-> ret])]

\* a stream is opened on some bytes for the class to load from
Open(c) ==
    /\ classes = [k \in AllClasses |-> Packable(Decl(k))]
    /\ cls = c
    /\ heap = <<>>
    /\ stream \in LoadBuffers(c)
    /\ op = "open"
    /\ err = Ok
    /\ arg = <<>>

\* cls.load(stream, count)
LoadCount(count) ==
    /\ IF count.t # "int"
          THEN /\ err' = [type |-> "ValueError", field |-> <<>>]
               /\ heap' = <<>>
               /\ stream' = stream
       ELSE IF count.n < 1
          THEN /\ err' = [type |-> "ValueError", field |-> <<>>]
               /\ heap' = <<>>
               /\ stream' = stream
       ELSE \E l \in {LoadLoop(cls, stream, 0, <<>>, 0, count.n, <<>>)} :
               /\ err' = Outcome(l)
               /\ stream' = SubSeq(stream, l.pos + 1, Len(stream))
               /\ IF l.err # "ok" THEN heap' = <<>>
                  ELSE \E v \in {LoadResult(count.n, l.ret, l.h)} :
                          heap' = NormalizeAt(v.h, v.val.a)
    /\ op' = "load"
    /\ arg' = [count |-> count, data |-> stream]
    /\ UNCHANGED <<classes, cls>>

LoadAny == \E count \in Counts : LoadCount(count)

InitLoad == \E c \in Classes : Open(c)

NextLoad == LoadAny

SpecLoad == InitLoad /\ [][NextLoad]_vars

---------------------------------------------------------------------------
(* Properties *)

RECURSIVE Deep(_, _)
\* a value with the lists and instances it names written out, which is what
\* a field-for-field comparison looks at
Deep(v, h) ==
    IF v.t # "ref" THEN v
    ELSE [t |-> h[v.a].t,
          cls |-> IF h[v.a].t = "obj" THEN h[v.a].cls ELSE "",
          items |-> [k \in 1..Len(h[v.a].items) |-> Deep(h[v.a].items[k], h)]]

\* cls.load(data): a new instance of the class, reloaded from data
Load(c, data) == ReloadObj(1, data, NewInstance(c, <<>>).h)

\* the value the i-th field of the instance holds
Slot(i) == heap[1].items[i]

\* the array fields of the instance that hold fewer items than their count
ShortArrays ==
    {i \in 1..NFields(cls) :
        /\ FieldPacker(cls, i).kind = "array"
        /\ IsList(Slot(i), heap)
        /\ Len(heap[Slot(i).a].items) < FieldPacker(cls, i).cnt}

\* C1: whenever dump succeeds, loading the bytes it wrote into a new instance
\* of the same class succeeds and gives field-for-field equal values,
\* through arrays and nested structs.
RoundTrip ==
    (op = "dump" /\ err.type = "ok") =>
        /\ Load(cls, stream).err = "ok"
        /\ Deep(Ref(1), Load(cls, stream).h) = Deep(Ref(1), heap)

\* a nested struct that was dumped and loads back as it was
RoundTripNested ==
    /\ cls = "Outer" /\ op = "dump" /\ err.type = "ok"
    /\ Deep(Ref(1), Load(cls, stream).h) = Deep(Ref(1), heap)

\* C2: after a successful load or default-fill, and after whatever is
\* assigned to the instance from then on, whenever dump succeeds
\* byte_size() is the number of bytes dump writes, padding included.
SizeIsDumpLength ==
    DumpObj(1, heap).err = "ok" =>
        /\ SizeObj(1, heap).err = "ok"
        /\ SizeObj(1, heap).n = Len(DumpObj(1, heap).out)

\* B (alignment 4: three A of alignment 8 and size 16, then an int8),
\* loaded from zero bytes, has size 52 and dumps 52 bytes
SizeOfB ==
    /\ cls = "B" /\ op = "zeroise" /\ err.type = "ok"
    /\ SizeObj(1, heap).n = 52
    /\ DumpObj(1, heap).err = "ok" /\ Len(DumpObj(1, heap).out) = 52

\* C3: in the bytes a successful dump writes the fields come in declaration
\* order, each at an offset that is a multiple of the alignment and over
\* exactly its packer's size, followed by the zero bytes up to the next
\* multiple of the alignment; load reads each field from the offset dump
\* wrote it at, and reads the same values whatever the padding holds.
Layout ==
    (op = "dump" /\ err.type = "ok") =>
        LET d == DumpObj(1, heap)
            l == Load(cls, stream)
            n == NFields(cls)
            A == Align(cls)
            end(i) == d.at[i] + ByteSize(FieldPacker(cls, i), Slot(i), heap).n
            next(i) == IF i = n THEN Len(stream) ELSE d.at[i + 1]
            pads == {k \in 1..Len(stream) : \E i \in 1..n : end(i) < k /\ k <= next(i)}
            stuffed == [k \in 1..Len(stream) |-> IF k \in pads THEN 72 ELSE stream[k]]
        IN  /\ Len(stream) % A = 0
            /\ \A i \in 1..n :
                  /\ d.at[i] % A = 0
                  /\ SubSeq(stream, d.at[i] + 1, end(i))
                        = Pack(FieldPacker(cls, i), Slot(i), heap).out
                  /\ next(i) = end(i) + Skip(A, end(i))
            /\ \A k \in pads : stream[k] = 0
            /\ l.at = d.at
            /\ Load(cls, stuffed).err = l.err
            /\ Load(cls, stuffed).h = l.h

\* int8, int16, int32 under alignment 4, read from the bytes of the tests
\* with 72 in the padding and dumped again: 12 bytes, zero padding
LayoutOfInts ==
    /\ cls = "Ints" /\ op = "dump" /\ err.type = "ok"
    /\ stream = <<1, 0, 0, 0, 2, 1, 0, 0, 4, 3, 2, 1>>

\* the names fields have in a FieldError
FieldNames == UNION {{Storage(c, i) : i \in 1..NFields(c)} : c \in AllClasses}

\* C4: a load/reload, dump or assign that fails ends with a FieldError that
\* names a field, and with no other error.
OnlyFieldError ==
    op \in {"reload", "dump", "assign"} =>
        \/ err.type = "ok"
        \/ err.type = "FieldError" /\ err.field \in FieldNames

\* Point (int32, int32) reloaded from the 6-byte buffer: x is read, y fails
InsufficientData ==
    /\ cls = "Point" /\ op = "reload"
    /\ err = [type |-> "FieldError", field |-> <<"Point", "y">>]
    /\ heap[1].items = <<IntV(1), IntV(6)>>

\* C5: an assign that raises leaves every slot of the instance, and of
\* everything the instance holds, as it was.
FailedAssignKeepsState ==
    [][(op' = "assign" /\ err'.type # "ok") => heap' = heap]_vars

\* an array field assigned a list it rejects: the wrong length, or an
\* element that is no number
FailedAssign ==
    /\ op = "assign" /\ err.type # "ok"
    /\ arg.p.kind = "array" /\ arg.c.k = "list"

\* C6: dumping an instance with an array field that holds fewer items than
\* its count fails with a FieldError.
UnderSupplyFails ==
    (op = "dump" /\ ShortArrays # {}) => err.type = "FieldError"

\* array(4, int8) holding [1, 2, 3, 4] dumps four bytes
FullArrayDumps ==
    /\ cls = "Arr" /\ op = "dump" /\ err.type = "ok"
    /\ stream = <<1, 2, 3, 4>>

\* C7: a string longer than its text field is rejected by assign, and no
\* successful dump has written a text field holding such a string.
TextNeverTruncates ==
    /\ (op = "assign" /\ arg.p.kind = "chars" /\ arg.c.k = "val"
          /\ arg.c.v.t = "str" /\ Len(CharsEncode(arg.p, arg.c.v.s)) > arg.p.sz)
          => err.type # "ok"
    /\ (op = "dump" /\ err.type = "ok") =>
          \A i \in 1..NFields(cls) :
              (FieldPacker(cls, i).kind = "chars" /\ Slot(i).t = "str")
                 => Len(CharsEncode(FieldPacker(cls, i), Slot(i).s))
                      <= FieldPacker(cls, i).sz

\* a string that fits its text field, dumped whole
TextFits ==
    /\ cls = "Name" /\ op = "dump" /\ err.type = "ok"
    /\ Slot(1) = StrV(<<97>>) /\ stream = <<97, 0, 0>>

\* C8: after construction or default-fill, a mutation made through one
\* element of an array (a slice of an inner list, an assign to a field of
\* a struct element) changes at most that element of any list.
ArrayDefaultsIndependent ==
    [][(/\ op \in {"init", "default"}
        /\ err'.type = "ok"
        /\ op' = "slice" \/ (op' = "assign" /\ arg'.a # 1)
        /\ Len(heap') = Len(heap))
       => \A l \in Lists :
             (heap'[l].t = "list" /\ Len(heap'[l].items) = Len(heap[l].items))
                => Cardinality({j \in 1..Len(heap[l].items) :
                                   Deep(heap[l].items[j], heap)
                                      # Deep(heap'[l].items[j], heap')}) <= 1]_vars

\* array(4, int8(5)): four times 5, and element 0 set to 97 changes no other
ScalarElementsIndependent ==
    /\ cls = "ArrD" /\ op = "slice"
    /\ heap[2].items = <<IntV(97), IntV(5), IntV(5), IntV(5)>>

\* C9 as stated: assign to a scalar field accepts a value exactly when
\* pack takes it, the unset value included.
ValidateIffPack ==
    (op = "assign" /\ arg.p.kind = "raw" /\ arg.c.k = "val") =>
        (err.type = "ok" <=> RawPack(arg.p, arg.c.v).err = "ok")

\* C9: assign to a scalar field accepts a value other than the unset value
\* exactly when pack takes it.
ValidateIffPackSet ==
    (op = "assign" /\ arg.p.kind = "raw" /\ arg.c.k = "val" /\ arg.c.v # None) =>
        (err.type = "ok" <=> RawPack(arg.p, arg.c.v).err = "ok")

\* 200 assigned to an int8 field: out of range, rejected
OutOfRangeRejected ==
    /\ op = "assign" /\ arg.p.kind = "raw" /\ arg.p.fmt = "b"
    /\ arg.c = Val(IntV(200)) /\ err.type = "FieldError"
    /\ RawPack(arg.p, arg.c.v).err # "ok"

\* the default a declaration asks for: the configured constant, else unset
\* for a scalar and the empty string for a text
Wanted(f) ==
    IF f.arg # None THEN f.arg
    ELSE IF f.base.kind = "chars" THEN StrV(<<>>) ELSE None

\* C10: a scalar or text field of a new instance holds the default its
\* declaration configures, 0 and the empty string included.
DefaultsAsConfigured ==
    op = "init" =>
        \A i \in 1..NFields(cls) :
            Decl(cls).fields[i].base.kind \in {"raw", "chars"}
               => Slot(i) = Wanted(Decl(cls).fields[i])

\* Point declares int32(5) and int32(6): a new Point holds 5 and 6
PointDefaults ==
    cls = "Point" /\ op = "init" /\ heap[1].items = <<IntV(5), IntV(6)>>


RECURSIVE Whole(_, _, _)
\* a value of packer p in which every array, at any depth, holds as many
\* items as its packer counts
Whole(p, v, h) ==
    CASE p.kind \in {"raw", "chars"} -> TRUE
      [] p.kind = "array" ->
           /\ IsList(v, h)
           /\ Len(h[v.a].items) = p.cnt
           /\ \A k \in 1..p.cnt : Whole(p.elem, h[v.a].items[k], h)
      [] p.kind = "struct" ->
           /\ IsObj(v, h)
           /\ \A i \in 1..NFields(h[v.a].cls) :
                 Whole(FieldPacker(h[v.a].cls, i), h[v.a].items[i], h)

RECURSIVE ZeroFilled(_, _, _)
\* a value of packer p as zero bytes decode it: every number 0, every text
\* empty, through arrays and nested structs
ZeroFilled(p, v, h) ==
    CASE p.kind = "raw" -> v = IntV(0)
      [] p.kind = "chars" -> v = StrV(<<>>)
      [] p.kind = "array" ->
           /\ IsList(v, h)
           /\ Len(h[v.a].items) = p.cnt
           /\ \A k \in 1..p.cnt : ZeroFilled(p.elem, h[v.a].items[k], h)
      [] p.kind = "struct" ->
           /\ IsObj(v, h)
           /\ \A i \in 1..NFields(h[v.a].cls) :
                 ZeroFilled(FieldPacker(h[v.a].cls, i), h[v.a].items[i], h)

Block(k) ==
    SubSeq(arg.data, (k - 1) * NewSize(cls) + 1,
           Min(k * NewSize(cls), Len(arg.data)))

\* the value a load of the class from the k-th block returns
FromBlock(k) == The({Deep(Ref(1), r.h) : r \in {Load(cls, Block(k))}})

\* C12: a load with a count that is not an integer, or is below 1, raises
\* ValueError and leaves the stream where it was; a load that succeeds
\* returns one instance when count is 1 and otherwise a list of exactly
\* count instances, the k-th being what the k-th block of byte_size()
\* bytes of the stream decodes to.
BatchLoad ==
    op = "load" =>
       IF arg.count.t # "int" \/ (arg.count.t = "int" /\ arg.count.n < 1)
          THEN err.type = "ValueError" /\ stream = arg.data
       ELSE err.type = "ok" =>
          IF arg.count.n = 1
             THEN /\ heap[1].t = "obj"
                  /\ heap[1].cls = cls
                  /\ Deep(Ref(1), heap) = FromBlock(1)
             ELSE /\ heap[1].t = "list"
                  /\ Len(heap[1].items) = arg.count.n
                  /\ \A k \in 1..arg.count.n :
                        /\ Load(cls, Block(k)).err = "ok"
                        /\ Deep(heap[1].items[k], heap) = FromBlock(k)

\* Point.load of the bytes of two points (1, 2) with count 2: a list of
\* two points, each x = 1 and y = 2
TwoPointsLoaded ==
    /\ cls = "Point" /\ op = "load" /\ err.type = "ok"
    /\ arg.count = IntV(2)
    /\ arg.data = <<1, 0, 0, 0, 2, 0, 0, 0, 1, 0, 0, 0, 2, 0, 0, 0>>
    /\ heap[1].t = "list"
    /\ Len(heap[1].items) = 2
    /\ \A k \in 1..2 :
          heap[heap[1].items[k].a].items = <<IntV(1), IntV(2)>>
    /\ stream = <<>>

============================================================================
